---- MODULE Spec2Model ----
(***************************************************************************)
(* Row-selector resolution of datatable (c/expr/i_node.cc): the factory    *)
(* i_node::make, the node family allrows_in / onerow_in / slice_in /       *)
(* expr_in / frame_in / multislice_in, and the lifecycle                   *)
(*     construction -> post_init_check(wf) -> execute(wf).                 *)
(***************************************************************************)
EXTENDS Integers, Sequences, FiniteSets, TLC

VARIABLES
  phase,      \* "start", "constructed", "checked", "executed", "failed"
  src,        \* the selector value handed to i_node::make
  node,       \* the i_node built by _make (its fields, by kind)
  nrows,      \* wf.nrows(); NoRows until post_init_check sees the workframe
  err,        \* "none", "ValueError", "TypeError"
  raised_at,  \* "none", "construct", "post_init_check", "execute"
  raised_by,  \* the function whose throw statement raised err; "none"
  ri          \* the RowIndex handed to wf.apply_rowindex by execute

vars == <<phase, src, node, nrows, err, raised_at, raised_by, ri>>

----------------------------------------------------------------------------
(* Bounds of the model *)

\* frames have 0..MaxRows rows
MaxRows == 3
\* integers appearing in selectors are in -MaxIdx..MaxIdx
MaxIdx == 2
\* a selector column has at most MaxCol rows
MaxCol == 2

\* steps of ranges and slices
StepValues == {-2, -1, 1, 2}

\* py::oslice::MAX and py::oslice::NA are INT64_MAX and INT64_MIN in the
\* program; here MAX is scaled to a number larger than every row count and
\* every index the model can form, and NA keeps its relation NA = -MAX - 1.
MAX == 2 * (MaxRows + MaxIdx) + 1
NA == -MAX - 1

NoRows == -1

Idx == -MaxIdx..MaxIdx
Rows == 0..MaxRows

----------------------------------------------------------------------------
(* Integer helpers *)

Abs(x) == IF x < 0 THEN -x ELSE x

\* C++ integer division: truncation toward zero
CDiv(a, b) ==
  IF (a >= 0) = (b > 0) THEN Abs(a) \div Abs(b) ELSE -(Abs(a) \div Abs(b))

RECURSIVE SeqMin(_)
SeqMin(s) ==
  IF Len(s) = 1 THEN s[1]
  ELSE LET m == SeqMin(Tail(s)) IN IF s[1] < m THEN s[1] ELSE m

RECURSIVE SeqMax(_)
SeqMax(s) ==
  IF Len(s) = 1 THEN s[1]
  ELSE LET m == SeqMax(Tail(s)) IN IF s[1] > m THEN s[1] ELSE m

\* the values start, start+step, ... visited by
\*   for (k = start; k < stop; k += step)   (step > 0)
\*   for (k = start; k > stop; k += step)   (step < 0)
LoopValues(start, stop, step) ==
  LET n == IF step > 0
             THEN (IF stop > start THEN (stop - start + step - 1) \div step ELSE 0)
             ELSE (IF stop < start THEN (start - stop - step - 1) \div (-step) ELSE 0)
  IN [i \in 1..n |-> start + (i - 1) * step]

----------------------------------------------------------------------------
(* RowIndex values *)

RowIndexAll == [type |-> "ALL", start |-> 0, count |-> 0, step |-> 0,
                size |-> 0, ind |-> <<>>]

\* RowIndex(start, count, step)
RowIndexArith(start, count, step) ==
  [type |-> "ARITHMETIC", start |-> start, count |-> count, step |-> step,
   size |-> 0, ind |-> <<>>]

\* RowIndex(arr32_t&&): `size` is the allocated length of the array and `ind`
\* the values stored into it, in the order they were stored
RowIndexArray(size, ind) ==
  [type |-> "ARRAY", start |-> 0, count |-> 0, step |-> 0,
   size |-> size, ind |-> ind]

----------------------------------------------------------------------------
(* Selector values: what the factory can be handed.  `shape` is the set of  *)
(* py::robj predicates the value satisfies (is_slice, is_frame, ...); the   *)
(* other fields are the parts of the value the matching constructor reads.  *)

NoColumn == [stype |-> "NONE", vals |-> <<>>]

NoValue ==
  [shape |-> {}, start |-> 0, stop |-> 0, step |-> 0, numeric |-> TRUE,
   ncols |-> 0, col |-> NoColumn, dims |-> <<>>, dtype |-> <<>>, elems |-> <<>>,
   stype |-> "NONE"]

\* slice(start, stop, step); an omitted part is NA.  numeric = FALSE is a
\* slice with a non-integer part, such as slice("a", "z").
SliceValue(start, stop, step, numeric) ==
  [NoValue EXCEPT !.shape = {"slice"}, !.start = start, !.stop = stop,
                  !.step = step, !.numeric = numeric]

\* a filter expression; stype is the type the expression resolves to
ExprValue(stype) == [NoValue EXCEPT !.shape = {"expr"}, !.stype = stype]

\* a Frame with ncols columns, the first of which is col
FrameValue(ncols, col) ==
  [NoValue EXCEPT !.shape = {"frame"}, !.ncols = ncols, !.col = col]

IntValue(k) == [NoValue EXCEPT !.shape = {"int"}, !.start = k]

NoneValue == [NoValue EXCEPT !.shape = {"none"}]
EllipsisValue == [NoValue EXCEPT !.shape = {"ellipsis"}]

\* a numpy array (also iterable) of the given shape, dtype name and values
ArrayValue(dims, dtype, vals) ==
  [NoValue EXCEPT !.shape = {"numpy_array", "iterable"}, !.dims = dims,
                  !.dtype = dtype, !.col = [stype |-> "NONE", vals |-> vals]]

\* range(start, stop, step) (also iterable)
RangeValue(start, stop, step) ==
  [NoValue EXCEPT !.shape = {"range", "iterable"}, !.start = start,
                  !.stop = stop, !.step = step]

\* a list (or any other iterable) of elements
ListValue(elems) == [NoValue EXCEPT !.shape = {"iterable"}, !.elems = elems]

BoolValue == [NoValue EXCEPT !.shape = {"bool"}]

\* a value of no recognised shape, such as a float
OtherValue == NoValue

\* elements of a list selector
IntElem(k) == [kind |-> "INT", start |-> k, stop |-> 0, step |-> 0]
RangeElem(a, b, c) == [kind |-> "RANGE", start |-> a, stop |-> b, step |-> c]
SliceElem(a, b, c) == [kind |-> "SLICE", start |-> a, stop |-> b, step |-> c]
\* a slice with a non-integer part
BadSliceElem == [kind |-> "SLICE_NONNUMERIC", start |-> 0, stop |-> 0, step |-> 0]
\* an element that is neither an int, a range nor a slice
OtherElem == [kind |-> "OTHER", start |-> 0, stop |-> 0, step |-> 0]

IdxOrNA == Idx \cup {NA}

IntRangeElems ==
  {IntElem(k) : k \in Idx}
  \cup {RangeElem(a, b, c) : a \in Idx, b \in Idx, c \in StepValues}

Elems ==
  IntRangeElems
  \cup {SliceElem(a, b, c) : a \in IdxOrNA, b \in IdxOrNA,
                             c \in StepValues \cup {0, NA}}
  \cup {BadSliceElem, OtherElem}

\* the lists handed to the factory: the empty list, every list of one
\* element, and every list of any element followed by an INT or a RANGE
ElemLists ==
  {<<>>} \cup {<<e>> : e \in Elems}
  \cup {<<e, f>> : e \in Elems, f \in IntRangeElems}

BoolVals == UNION {[1..n -> {0, 1}] : n \in 0..MaxCol}
IntVals == UNION {[1..n -> (-MaxIdx)..(MaxRows + 1)] : n \in 1..MaxCol}

Columns ==
  {[stype |-> "BOOL", vals |-> v] : v \in BoolVals}
  \cup {[stype |-> "INT", vals |-> v] : v \in IntVals}
  \cup {[stype |-> "REAL", vals |-> <<0>>]}

ArrayDims == {<<2>>, <<1, 2>>, <<2, 1>>, <<2, 2>>, <<1, 1, 2>>}
\* dtype names, as the character strings std::string::compare inspects
ArrayDtypes ==
  {<<"b", "o", "o", "l">>, <<"i", "n", "t", "3", "2">>,
   <<"i", "n", "t", "6", "4">>, <<"f", "l", "o", "a", "t", "6", "4">>}

Selectors ==
  {SliceValue(a, b, c, TRUE) : a \in IdxOrNA, b \in IdxOrNA,
                               c \in StepValues \cup {NA}}
  \cup {SliceValue(NA, NA, NA, FALSE)}
  \cup {ExprValue(t) : t \in {"BOOL", "INT"}}
  \cup {FrameValue(n, c) : n \in {1, 2}, c \in Columns}
  \cup {[FrameValue(1, c) EXCEPT !.shape = {"frame", "iterable"}] : c \in Columns}
  \cup {IntValue(k) : k \in (-MaxRows - 1)..(MaxRows + 1)}
  \cup {NoneValue, EllipsisValue, BoolValue, OtherValue}
  \cup {ArrayValue(d, t, <<0, 1>>) : d \in ArrayDims, t \in ArrayDtypes}
  \cup {RangeValue(a, b, c) : a \in Idx, b \in Idx, c \in StepValues}
  \cup {ListValue(l) : l \in ElemLists}

----------------------------------------------------------------------------
(* Nodes and their constructors.  A constructor yields the node and the    *)
(* error it threw, if any.                                                 *)

NoNode ==
  [kind |-> "none", irow |-> 0, istart |-> 0, istop |-> 0, istep |-> 0,
   is_slice |-> FALSE, stype |-> "NONE", dt |-> NoColumn, items |-> <<>>,
   min_nrows |-> 0]

\* `return nullptr`
NullNode == [NoNode EXCEPT !.kind = "nullptr"]

\* `by` is the function that threw
Built(n) == [node |-> n, err |-> "none", by |-> "none"]
Thrown(e, by) == [node |-> NoNode, err |-> e, by |-> by]

allrows_in == Built([NoNode EXCEPT !.kind = "allrows_in"])

onerow_in(i) == Built([NoNode EXCEPT !.kind = "onerow_in", !.irow = i])

slice_in(start, stop, step, slice) ==
  Built([NoNode EXCEPT !.kind = "slice_in", !.istart = start, !.istop = stop,
                       !.istep = step, !.is_slice = slice])

expr_in(s) == Built([NoNode EXCEPT !.kind = "expr_in", !.stype = s.stype])

frame_in(ncols, col) ==
  IF ncols # 1 THEN Thrown("ValueError", "frame_in")
  ELSE IF ~(col.stype = "BOOL" \/ col.stype = "INT")
    THEN Thrown("TypeError", "frame_in")
  ELSE Built([NoNode EXCEPT !.kind = "frame_in", !.dt = col])

\* std::string::compare(0, n, prefix): 0 when the first n characters of the
\* string are the prefix, non-zero otherwise
ComparePrefix(str, prefix) ==
  LET n == Len(prefix) IN
  IF Len(str) >= n /\ SubSeq(str, 1, n) = prefix THEN 0 ELSE 1

\* the column datatable's Frame constructor makes of a 1-D numpy array
FrameFromArray(s) ==
  [stype |-> IF ComparePrefix(s.dtype, <<"b", "o", "o", "l">>) = 0 THEN "BOOL"
             ELSE IF ComparePrefix(s.dtype, <<"i", "n", "t">>) = 0 THEN "INT"
             ELSE "REAL",
   vals |-> s.col.vals]

_from_nparray(s) ==
  LET squeeze == Len(s.dims) = 2 /\ (s.dims[1] = 1 \/ s.dims[2] = 1)
      ndims == IF squeeze THEN 1 ELSE Len(s.dims)
      is_bool == ComparePrefix(s.dtype, <<"b", "o", "o", "l">>) # 0
      is_int == ComparePrefix(s.dtype, <<"i", "n", "t">>) # 0
  IN IF ndims # 1 THEN Thrown("ValueError", "_from_nparray")
     ELSE IF ~(is_bool \/ is_int) THEN Thrown("TypeError", "_from_nparray")
     ELSE frame_in(1, FrameFromArray(s))

----------------------------------------------------------------------------
(* multislice_in::multislice_in *)

\* the element count of range(start, stop, step) as the constructor computes it
RangeCount(start, stop, step) ==
  IF step > 0 THEN CDiv(stop - start + step - 1, step)
  ELSE CDiv(start - stop - step - 1, -step)

\* `if (count <= 0) continue;`
RangeSkipped_countNegativeOnly(count) == count < 0
RangeSkipped(count) == count <= 0

\* `(start >= 0) != (last >= 0)`
WrapAround_strictSign(start, last) == (start > 0) # (last > 0)
WrapAround(start, last) == (start >= 0) # (last >= 0)

\* the number of rows an INT element needs
IntNeeds(value) == IF value >= 0 THEN value + 1 ELSE -value

\* n1, n2: the number of rows an end of a range needs
RangeEndNeeds(x) == IF x > 0 THEN x + 1 ELSE -x

Max2(a, b) == IF a > b THEN a ELSE b

\* `step == 0` slices: stop < 0 || start == NA || stop == NA
ZeroStepInvalid(start, stop) == stop < 0 \/ start = NA \/ stop = NA

\* One turn of the constructor's loop.  acc = [items, max_nrows, err].
MultisliceElem(acc, elem) ==
  IF acc.err # "none" THEN acc
  ELSE IF elem.kind = "INT" THEN
    [acc EXCEPT !.max_nrows = Max2(@, IntNeeds(elem.start)),
                !.items = Append(@, [start |-> elem.start, stop |-> 0,
                                     step |-> 0, kind |-> "INT"])]
  ELSE IF elem.kind = "RANGE" THEN
    LET start == elem.start
        step == elem.step
        count == RangeCount(start, elem.stop, step)
        last == start + (count - 1) * step
        stop == start + count * step
    IN IF RangeSkipped(count) THEN acc
       ELSE IF WrapAround(start, last) THEN [acc EXCEPT !.err = "ValueError"]
       ELSE [acc EXCEPT
               !.max_nrows = Max2(Max2(@, RangeEndNeeds(start)), RangeEndNeeds(last)),
               !.items = Append(@, [start |-> start, stop |-> stop,
                                    step |-> step, kind |-> "RANGE"])]
  ELSE IF elem.kind \in {"SLICE", "SLICE_NONNUMERIC"} THEN
    IF elem.kind = "SLICE_NONNUMERIC" THEN [acc EXCEPT !.err = "TypeError"]
    ELSE IF elem.step = 0 THEN
      IF ZeroStepInvalid(elem.start, elem.stop)
        THEN [acc EXCEPT !.err = "ValueError"]
        ELSE [acc EXCEPT !.items = Append(@, [start |-> elem.start,
                 stop |-> elem.stop, step |-> 0, kind |-> "SLICE"])]
    ELSE
      LET step == IF elem.step = NA THEN 1 ELSE elem.step
          start == IF elem.start = NA THEN (IF step > 0 THEN 0 ELSE MAX)
                   ELSE elem.start
          stop == IF elem.stop = NA THEN (IF step > 0 THEN MAX ELSE -MAX)
                  ELSE elem.stop
      IN [acc EXCEPT !.items = Append(@, [start |-> start, stop |-> stop,
                                          step |-> step, kind |-> "SLICE"])]
  ELSE [acc EXCEPT !.err = "TypeError"]

RECURSIVE MultisliceLoop(_, _)
MultisliceLoop(acc, elems) ==
  IF elems = <<>> THEN acc
  ELSE MultisliceLoop(MultisliceElem(acc, Head(elems)), Tail(elems))

multislice_in(s) ==
  LET acc == MultisliceLoop([items |-> <<>>, max_nrows |-> 0, err |-> "none"],
                            s.elems)
  IN IF acc.err # "none" THEN Thrown(acc.err, "multislice_in")
     ELSE Built([NoNode EXCEPT !.kind = "multislice_in", !.items = acc.items,
                               !.min_nrows = acc.max_nrows])

----------------------------------------------------------------------------
(* The factory: _make and i_node::make *)

\* py::oslice::is_trivial: the slice `:`, with no start, stop or step
IsTrivial(s) == s.start = NA /\ s.stop = NA /\ s.step = NA /\ s.numeric

\* the order in which _make tests the shape of its argument
DispatchOrder_iterableBeforeRange ==
  <<"slice", "expr", "frame", "int", "none_or_ellipsis", "numpy_array",
    "iterable", "range", "bool">>
DispatchOrder ==
  <<"slice", "expr", "frame", "int", "none_or_ellipsis", "numpy_array",
    "range", "iterable", "bool">>

Satisfies(s, test) ==
  IF test = "none_or_ellipsis" THEN "none" \in s.shape \/ "ellipsis" \in s.shape
  ELSE test \in s.shape

\* the first test of DispatchOrder the value passes; "nothing" if none
FirstTest(s) ==
  LET hits == {i \in 1..Len(DispatchOrder) : Satisfies(s, DispatchOrder[i])}
  IN IF hits = {} THEN "nothing"
     ELSE DispatchOrder[CHOOSE i \in hits : \A j \in hits : i <= j]

_make(s) ==
  LET t == FirstTest(s) IN
  CASE t = "slice" ->
         IF IsTrivial(s) THEN allrows_in
         ELSE IF s.numeric THEN slice_in(s.start, s.stop, s.step, TRUE)
         ELSE Thrown("TypeError", "_make")
    [] t = "expr" -> expr_in(s)
    [] t = "frame" -> frame_in(s.ncols, s.col)
    [] t = "int" -> onerow_in(s.start)
    [] t = "none_or_ellipsis" -> allrows_in
    [] t = "numpy_array" -> _from_nparray(s)
    [] t = "range" -> slice_in(s.start, s.stop, s.step, FALSE)
    [] t = "iterable" -> multislice_in(s)
    [] t = "bool" -> Thrown("TypeError", "_make")
    [] OTHER -> Built(NullNode)

----------------------------------------------------------------------------
(* post_init_check *)

\* onerow_in::post_init_check: `irow < -inrows || irow >= inrows`
OnerowInvalid_offByOne(irow, inrows) == irow < -inrows \/ irow > inrows
OnerowInvalid(irow, inrows) == irow < -inrows \/ irow >= inrows

\* frame_in::post_init_check: the condition under which it throws
FrameInvalid_maxOffByOne(col, n) ==
  IF col.stype = "BOOL" THEN Len(col.vals) # n
  ELSE SeqMin(col.vals) < -1 \/ SeqMax(col.vals) > n
FrameInvalid(col, n) ==
  IF col.stype = "BOOL" THEN Len(col.vals) # n
  ELSE SeqMin(col.vals) < -1 \/ SeqMax(col.vals) >= n

\* multislice_in::post_init_check: `wf.nrows() < min_nrows`
MultisliceInvalid(min_nrows, n) == n < min_nrows

----------------------------------------------------------------------------
(* execute *)

\* py::oslice::normalize: Python's slice.indices(n), as start, count, step
OsliceNormalize(n, istart, istop, istep) ==
  LET step == IF istep = NA THEN 1 ELSE istep
      lo == IF step > 0 THEN 0 ELSE -1
      hi == IF step > 0 THEN n ELSE n - 1
      Clip(x) == LET y == IF x < 0 THEN x + n ELSE x
                 IN IF y < lo THEN lo ELSE IF y > hi THEN hi ELSE y
      start == IF istart = NA THEN (IF step > 0 THEN lo ELSE hi) ELSE Clip(istart)
      stop == IF istop = NA THEN (IF step > 0 THEN hi ELSE lo) ELSE Clip(istop)
  IN [start |-> start, count |-> Len(LoopValues(start, stop, step)),
      step |-> step]

\* py::orange::normalize: fails unless the range is empty or its first and
\* last elements, translated by n together when negative, are rows of the frame
OrangeNormalize(n, istart, istop, istep) ==
  LET count == RangeCount(istart, istop, istep)
      shift == IF istart < 0 THEN n ELSE 0
      first == istart + shift
      last == istart + (count - 1) * istep + shift
  IN IF count <= 0 THEN [ok |-> TRUE, start |-> 0, count |-> 0, step |-> 1]
     ELSE [ok |-> first >= 0 /\ first < n /\ last >= 0 /\ last < n,
           start |-> first, count |-> count, step |-> istep]

\* slice_in::execute: the condition under which it throws
SliceExecuteFails_flagIgnored(nd, n) ==
  ~OrangeNormalize(n, nd.istart, nd.istop, nd.istep).ok
SliceExecuteFails(nd, n) ==
  ~nd.is_slice /\ ~OrangeNormalize(n, nd.istart, nd.istop, nd.istep).ok

SliceRowIndex(nd, n) ==
  LET r == IF nd.is_slice THEN OsliceNormalize(n, nd.istart, nd.istop, nd.istep)
           ELSE OrangeNormalize(n, nd.istart, nd.istop, nd.istep)
  IN RowIndexArith(r.start, r.count, r.step)

\* RowIndex(Column*): a boolean column gives the positions of its true
\* values, an integer column its values
RECURSIVE TruePositions(_, _)
TruePositions(vals, i) ==
  IF i > Len(vals) THEN <<>>
  ELSE (IF vals[i] = 1 THEN <<i - 1>> ELSE <<>>) \o TruePositions(vals, i + 1)

ColumnRowIndex(col) ==
  LET ind == IF col.stype = "BOOL" THEN TruePositions(col.vals, 1) ELSE col.vals
  IN RowIndexArray(Len(ind), ind)

\* multislice_in::execute, first loop: one item.  Yields the item as the loop
\* leaves it and the count it adds to total_count.
CountItem(item, inrows) ==
  IF item.kind = "INT" THEN
    [item |-> [item EXCEPT !.start = IF @ < 0 THEN @ + inrows ELSE @],
     icount |-> 1]
  ELSE IF item.kind = "RANGE" THEN
    LET start == IF item.start < 0 THEN item.start + inrows ELSE item.start
        stop == IF item.stop < 0 THEN item.stop + inrows ELSE item.stop
    IN [item |-> [item EXCEPT !.start = start, !.stop = stop],
        icount |-> CDiv(stop - start, item.step)]
  ELSE
    LET s1 == IF item.start < 0 THEN item.start + inrows ELSE item.start
        start == IF s1 < 0 THEN 0 ELSE s1
        t1 == IF item.stop < 0 THEN item.stop + inrows ELSE item.stop
        t2 == IF t1 < 0 THEN -1 ELSE t1
        stop == IF t2 > inrows THEN inrows ELSE t2
        step == item.step
        icount == IF step > 0 /\ stop > start
                    THEN CDiv(stop - start + step - 1, step)
                  ELSE IF step < 0 /\ stop < start
                    THEN CDiv(start - stop - step - 1, -step)
                  ELSE 0
    IN IF start > inrows
         THEN [item |-> [item EXCEPT !.start = start], icount |-> 0]
         ELSE [item |-> [item EXCEPT !.start = start, !.stop = stop],
               icount |-> icount]

\* multislice_in::execute, second loop: the values one item stores
FillItem(item) ==
  IF item.kind = "INT" THEN <<item.start>>
  ELSE IF item.step # 0 THEN LoopValues(item.start, item.stop, item.step)
  ELSE [k \in 1..item.stop |-> item.start]

RECURSIVE CountLoop(_, _)
\* the items after the first loop
CountLoop(items, inrows) ==
  IF items = <<>> THEN <<>>
  ELSE <<CountItem(Head(items), inrows).item>> \o CountLoop(Tail(items), inrows)

RECURSIVE TotalCount(_, _)
\* total_count after the first loop.  It is a size_t: a negative sum here is
\* the program's 2^64 minus that amount.
TotalCount(items, inrows) ==
  IF items = <<>> THEN 0
  ELSE CountItem(Head(items), inrows).icount + TotalCount(Tail(items), inrows)

RECURSIVE FillLoop(_)
FillLoop(items) ==
  IF items = <<>> THEN <<>> ELSE FillItem(Head(items)) \o FillLoop(Tail(items))

----------------------------------------------------------------------------
(* The lifecycle *)

Init ==
  /\ phase = "start"
  /\ src = NoValue
  /\ node = NoNode
  /\ nrows = NoRows
  /\ err = "none"
  /\ raised_at = "none"
  /\ raised_by = "none"
  /\ ri = RowIndexAll

Raise(e, where, by) ==
  /\ raised_by' = by
  /\ err' = e
  /\ raised_at' = where
  /\ phase' = "failed"

\* i_node::make(src)
Make ==
  /\ phase = "start"
  /\ \E s \in Selectors :
       LET r == _make(s) IN
       /\ src' = s
       /\ node' = r.node
       /\ IF r.err # "none" THEN Raise(r.err, "construct", r.by)
          ELSE phase' = "constructed" /\ UNCHANGED <<err, raised_at, raised_by>>
  /\ UNCHANGED <<nrows, ri>>

\* i_node::post_init_check, inherited by allrows_in, slice_in and expr_in
DefaultPostInitCheck ==
  /\ phase = "constructed"
  /\ node.kind \in {"allrows_in", "slice_in", "expr_in"}
  /\ \E n \in Rows : nrows' = n
  /\ phase' = "checked"
  /\ UNCHANGED <<src, node, err, raised_at, raised_by, ri>>

OnerowPostInitCheck ==
  /\ phase = "constructed"
  /\ node.kind = "onerow_in"
  /\ \E n \in Rows :
       /\ nrows' = n
       /\ IF OnerowInvalid(node.irow, n)
            THEN Raise("ValueError", "post_init_check", "onerow_in::post_init_check") /\ UNCHANGED node
            ELSE /\ node' = [node EXCEPT !.irow = IF @ < 0 THEN @ + n ELSE @]
                 /\ phase' = "checked"
                 /\ UNCHANGED <<err, raised_at, raised_by>>
  /\ UNCHANGED <<src, ri>>

FramePostInitCheck ==
  /\ phase = "constructed"
  /\ node.kind = "frame_in"
  /\ \E n \in Rows :
       /\ nrows' = n
       /\ IF FrameInvalid(node.dt, n)
            THEN Raise("ValueError", "post_init_check", "frame_in::post_init_check")
            ELSE phase' = "checked" /\ UNCHANGED <<err, raised_at, raised_by>>
  /\ UNCHANGED <<src, node, ri>>

MultislicePostInitCheck ==
  /\ phase = "constructed"
  /\ node.kind = "multislice_in"
  /\ \E n \in Rows :
       /\ nrows' = n
       /\ IF MultisliceInvalid(node.min_nrows, n)
            THEN Raise("ValueError", "post_init_check",
                       "multislice_in::post_init_check")
            ELSE phase' = "checked" /\ UNCHANGED <<err, raised_at, raised_by>>
  /\ UNCHANGED <<src, node, ri>>

AllrowsExecute ==
  /\ phase = "checked"
  /\ node.kind = "allrows_in"
  /\ phase' = "executed"
  /\ UNCHANGED <<src, node, nrows, err, raised_at, raised_by, ri>>

OnerowExecute ==
  /\ phase = "checked"
  /\ node.kind = "onerow_in"
  /\ ri' = RowIndexArith(node.irow, 1, 1)
  /\ phase' = "executed"
  /\ UNCHANGED <<src, node, nrows, err, raised_at, raised_by>>

SliceExecute ==
  /\ phase = "checked"
  /\ node.kind = "slice_in"
  /\ IF SliceExecuteFails(node, nrows)
       THEN Raise("ValueError", "execute", "slice_in::execute") /\ UNCHANGED ri
       ELSE /\ ri' = SliceRowIndex(node, nrows)
            /\ phase' = "executed"
            /\ UNCHANGED <<err, raised_at, raised_by>>
  /\ UNCHANGED <<src, node, nrows>>

\* expr_in::execute; the boolean column is whatever the expression evaluates to
ExprExecute ==
  /\ phase = "checked"
  /\ node.kind = "expr_in"
  /\ IF node.stype # "BOOL"
       THEN Raise("TypeError", "execute", "expr_in::execute") /\ UNCHANGED ri
       ELSE /\ \E mask \in [1..nrows -> {0, 1}] :
                 ri' = ColumnRowIndex([stype |-> "BOOL", vals |-> mask])
            /\ phase' = "executed"
            /\ UNCHANGED <<err, raised_at, raised_by>>
  /\ UNCHANGED <<src, node, nrows>>

FrameExecute ==
  /\ phase = "checked"
  /\ node.kind = "frame_in"
  /\ ri' = ColumnRowIndex(node.dt)
  /\ phase' = "executed"
  /\ UNCHANGED <<src, node, nrows, err, raised_at, raised_by>>

MultisliceExecute ==
  /\ phase = "checked"
  /\ node.kind = "multislice_in"
  /\ LET items == CountLoop(node.items, nrows) IN
       /\ node' = [node EXCEPT !.items = items]
       /\ ri' = RowIndexArray(TotalCount(node.items, nrows), FillLoop(items))
  /\ phase' = "executed"
  /\ UNCHANGED <<src, nrows, err, raised_at, raised_by>>

Next ==
  \/ Make
  \/ DefaultPostInitCheck
  \/ OnerowPostInitCheck
  \/ FramePostInitCheck
  \/ MultislicePostInitCheck
  \/ AllrowsExecute
  \/ OnerowExecute
  \/ SliceExecute
  \/ ExprExecute
  \/ FrameExecute
  \/ MultisliceExecute

Spec == Init /\ [][Next]_vars

----------------------------------------------------------------------------
(* Reference semantics used by the properties *)

IsList(s) == s.shape = {"iterable"}

\* the elements of Python's range(a, b, c)
PyRange(a, b, c) == LoopValues(a, b, c)

\* Python's slice(a, b, c).indices(n), with NA for an omitted part, c # 0
PySliceIndices(a, b, c, n) ==
  LET step == IF c = NA THEN 1 ELSE c
      Adjust(x) ==
        IF x < 0 THEN (IF x + n < 0 THEN (IF step < 0 THEN -1 ELSE 0) ELSE x + n)
        ELSE IF x >= n THEN (IF step < 0 THEN n - 1 ELSE n)
        ELSE x
      start == IF a = NA THEN (IF step < 0 THEN n - 1 ELSE 0) ELSE Adjust(a)
      stop == IF b = NA THEN (IF step < 0 THEN -1 ELSE n) ELSE Adjust(b)
  IN LoopValues(start, stop, step)

\* a negative index counts from the end of a frame of n rows
Translate(x, n) == IF x < 0 THEN x + n ELSE x

IsEmptyRange(e) ==
  e.kind = "RANGE" /\ ((e.step > 0 /\ e.start >= e.stop) \/ (e.step < 0 /\ e.start <= e.stop))

\* a non-empty range whose first and last elements have the same sign
IsSameSignRange(e) ==
  /\ e.kind = "RANGE"
  /\ ~IsEmptyRange(e)
  /\ LET r == PyRange(e.start, e.stop, e.step)
     IN (r[1] >= 0) = (r[Len(r)] >= 0)

\* what an INT or a same-sign RANGE element contributes on a frame of n rows
Contribution(e, n) ==
  IF e.kind = "INT" THEN <<Translate(e.start, n)>>
  ELSE LET r == PyRange(e.start, e.stop, e.step)
       IN [i \in 1..Len(r) |-> Translate(r[i], n)]

RECURSIVE Concatenation(_, _)
Concatenation(elems, n) ==
  IF elems = <<>> THEN <<>>
  ELSE Contribution(Head(elems), n) \o Concatenation(Tail(elems), n)

AllElems(s, P(_)) == \A i \in 1..Len(s.elems) : P(s.elems[i])

----------------------------------------------------------------------------
(* C1 *)

\* C1: every index that the execute of a mixed-list selector writes into its
\* ARRAY RowIndex lies in [0, nrows), whatever the kinds of its items.
C1_IndicesWithinFrame ==
  (phase = "executed" /\ node.kind = "multislice_in")
    => \A i \in 1..Len(ri.ind) : ri.ind[i] >= 0 /\ ri.ind[i] < nrows

----------------------------------------------------------------------------
(* C2 *)

\* C2: a one-row selector k on a frame of N rows passes post_init_check when
\* -N <= k < N, and execute then applies exactly ARITHMETIC(k mod N, 1, 1);
\* otherwise post_init_check raises a range error and execute is not reached.
C2_OnerowResolution ==
  (node.kind = "onerow_in" /\ nrows # NoRows) =>
    LET k == src.start IN
    IF -nrows <= k /\ k < nrows
      THEN /\ phase \in {"checked", "executed"}
           /\ err = "none"
           /\ node.irow = k % nrows
           /\ phase = "executed" => ri = RowIndexArith(k % nrows, 1, 1) /\ ri.start >= 0
      ELSE /\ phase = "failed"
           /\ err = "ValueError"
           /\ raised_at = "post_init_check"
           /\ ri = RowIndexAll

C2_Witness ==
  /\ phase = "executed"
  /\ node.kind = "onerow_in"
  /\ src.start = -1
  /\ nrows = MaxRows
  /\ ri.start = MaxRows - 1

----------------------------------------------------------------------------
(* C3 *)

\* C3: a SLICE item with a non-zero step never raises and contributes exactly
\* the elements of Python's slice(start, stop, step).indices(N), for every N.
C3_SliceItemIsPythonSlice ==
  (/\ IsList(src)
   /\ Len(src.elems) = 1
   /\ src.elems[1].kind = "SLICE"
   /\ src.elems[1].step # 0)
  => /\ phase # "failed"
     /\ phase = "executed" =>
          LET e == src.elems[1]
              expected == PySliceIndices(e.start, e.stop, e.step, nrows)
          IN ri.type = "ARRAY" /\ ri.ind = expected /\ ri.size = Len(expected)

----------------------------------------------------------------------------
(* C4 *)

\* C4: a list of INT items and non-empty same-sign RANGE items resolves to
\* the concatenation, in list order, of each item's contribution: k (plus N
\* if negative) for an INT, the elements of the Python range, each negative
\* one translated by N, for a RANGE.
C4_ListIsConcatenation ==
  (/\ IsList(src)
   /\ AllElems(src, LAMBDA e : e.kind = "INT" \/ IsSameSignRange(e))
   /\ phase = "executed")
  => LET expected == Concatenation(src.elems, nrows)
     IN ri.type = "ARRAY" /\ ri.ind = expected /\ ri.size = Len(expected)

----------------------------------------------------------------------------
(* C5 *)

IsRangeList(s) ==
  IsList(s) /\ s.elems # <<>> /\ AllElems(s, LAMBDA e : e.kind = "RANGE" /\ ~IsEmptyRange(e))

\* the rows of a frame in which x is a valid index: x + 1 rows for x >= 0,
\* -x rows for a negative x
EndNeeds(x) == IF x >= 0 THEN x + 1 ELSE -x

\* the first and last elements of the ranges of a list
RangeEnds(elems) ==
  UNION {LET r == PyRange(elems[i].start, elems[i].stop, elems[i].step)
         IN {r[1], r[Len(r)]} : i \in 1..Len(elems)}

\* C5 as stated: a list of non-empty ranges each with first and last element
\* of the same sign resolves without error for every N; a list with a range
\* whose first and last elements differ in sign raises a range error at
\* construction, before any row count is known.
C5_SameSignRangeAlwaysResolves ==
  IsRangeList(src) =>
    IF AllElems(src, IsSameSignRange)
      THEN phase # "failed"
      ELSE /\ phase = "failed"
           /\ err = "ValueError"
           /\ raised_at = "construct"
           /\ nrows = NoRows

\* C5 amended: for such a list construction succeeds; post_init_check
\* succeeds when N is at least the rows the ranges' first and last elements
\* need, and raises a range error when N is less than the rows a non-zero
\* first or last element needs.  A range whose first and last elements
\* differ in sign raises a range error at construction, before any row count
\* is known.
C5_SameSignRangeResolvesGivenRows ==
  IsRangeList(src) =>
    IF AllElems(src, IsSameSignRange)
      THEN /\ raised_at # "construct"
           /\ node.kind = "multislice_in"
           /\ nrows # NoRows =>
                LET ends == RangeEnds(src.elems) IN
                /\ (\A x \in ends : nrows >= EndNeeds(x))
                     => raised_at # "post_init_check" /\ phase # "failed"
                /\ (\E x \in ends : x # 0 /\ nrows < EndNeeds(x))
                     => /\ phase = "failed"
                        /\ err = "ValueError"
                        /\ raised_at = "post_init_check"
      ELSE /\ phase = "failed"
           /\ err = "ValueError"
           /\ raised_at = "construct"
           /\ nrows = NoRows

C5_Witness ==
  /\ IsRangeList(src)
  /\ Len(src.elems) = 2
  /\ AllElems(src, IsSameSignRange)
  /\ src.elems[1].start = 0
  /\ src.elems[2].start < 0
  /\ phase = "executed"
  /\ \A x \in RangeEnds(src.elems) : nrows >= EndNeeds(x)
  /\ \E x \in RangeEnds(src.elems) : nrows = EndNeeds(x)

----------------------------------------------------------------------------
(* C6 *)

\* C6: post_init_check of a single-column frame selector raises a range error
\* exactly when the column is boolean with a row count other than N, or is
\* integer with a value below -1 or a value of N or more; otherwise it
\* succeeds.
C6_FrameCheck ==
  (node.kind = "frame_in" /\ nrows # NoRows) =>
    LET vals == node.dt.vals
        bad == \/ node.dt.stype = "BOOL" /\ Len(vals) # nrows
               \/ /\ node.dt.stype = "INT"
                  /\ \E i \in 1..Len(vals) : vals[i] < -1 \/ vals[i] >= nrows
    IN IF bad
         THEN phase = "failed" /\ err = "ValueError" /\ raised_at = "post_init_check"
         ELSE phase \in {"checked", "executed"} /\ err = "none"

C6_Witness ==
  /\ node.kind = "frame_in"
  /\ node.dt.stype = "INT"
  /\ node.dt.vals = <<-1, nrows - 1>>
  /\ nrows > 0
  /\ phase = "executed"

----------------------------------------------------------------------------
(* C7 *)

\* C7: the factory never returns an absent node: a value of no recognised
\* shape makes it raise.
C7_FactoryNeverReturnsNull ==
  phase # "start" =>
    /\ node.kind # "nullptr"
    /\ src.shape = {} => phase = "failed" /\ raised_at = "construct"

----------------------------------------------------------------------------
(* C8 *)

\* C8 as stated: execute raises only data-dependent errors (a filter
\* expression that is not boolean), for every kind of node.
C8_ExecuteRaisesOnlyDataErrors ==
  raised_at = "execute" => node.kind = "expr_in" /\ err = "TypeError"

\* C8 amended: the execute of a one-row, slice-style, frame, all-rows or
\* mixed-list node raises nothing and that of a filter-expression node only
\* the type error of a non-boolean expression; the range-style node, which
\* has no post_init_check of its own, raises its range error at execute.
C8_ExecuteRaisesDataOrRangeStyleErrors ==
  raised_at = "execute" =>
    \/ node.kind = "expr_in" /\ err = "TypeError" /\ node.stype # "BOOL"
    \/ node.kind = "slice_in" /\ ~node.is_slice /\ err = "ValueError"

C8_Witness ==
  /\ phase = "failed"
  /\ raised_at = "execute"
  /\ node.kind = "slice_in"
  /\ ~node.is_slice
  /\ "range" \in src.shape
  /\ src.start = 0 /\ src.stop = MaxIdx /\ src.step = 1
  /\ nrows = MaxIdx - 1

----------------------------------------------------------------------------
(* C9 *)

NotEmptyRange(e) == ~IsEmptyRange(e)

\* C9: an empty range in a list selector contributes nothing: the list is
\* constructed, or rejected, exactly as the list without its empty ranges,
\* and a list of empty ranges only resolves to an empty ARRAY for every N.
C9_EmptyRangeContributesNothing ==
  (IsList(src) /\ phase # "start") =>
    /\ [node |-> IF phase = "executed" THEN [node EXCEPT !.items = <<>>] ELSE node,
        err |-> IF raised_at = "construct" THEN err ELSE "none",
        by |-> IF raised_at = "construct" THEN raised_by ELSE "none"]
         = LET r == _make(ListValue(SelectSeq(src.elems, NotEmptyRange)))
           IN IF phase = "executed" THEN [r EXCEPT !.node.items = <<>>] ELSE r
    /\ AllElems(src, IsEmptyRange) =>
         /\ phase # "failed"
         /\ node.items = <<>> /\ node.min_nrows = 0
         /\ phase = "executed" => ri = RowIndexArray(0, <<>>)

C9_Witness ==
  /\ IsList(src)
  /\ Len(src.elems) = 2
  /\ AllElems(src, IsEmptyRange)
  /\ src.elems[1].start = src.elems[1].stop
  /\ src.elems[2].start > src.elems[2].stop /\ src.elems[2].step = 2
  /\ nrows = 0
  /\ phase = "executed"
  /\ ri.type = "ARRAY"

----------------------------------------------------------------------------
(* C10 *)

\* the kinds of node, or the error, the rule for each shape may give
RuleOutcome(shape, s) ==
  CASE shape = "slice" ->
         IF s.start = NA /\ s.stop = NA /\ s.step = NA /\ s.numeric
           THEN node.kind = "allrows_in"
         ELSE IF s.numeric THEN node.kind = "slice_in" /\ node.is_slice
         ELSE err = "TypeError" /\ raised_at = "construct"
    [] shape = "expr" -> node.kind = "expr_in"
    [] shape = "frame" -> node.kind = "frame_in" \/ raised_at = "construct"
    [] shape = "int" -> node.kind = "onerow_in"
    [] shape = "none" -> node.kind = "allrows_in"
    [] shape = "ellipsis" -> node.kind = "allrows_in"
    [] shape = "numpy_array" -> node.kind = "frame_in" \/ raised_at = "construct"
    [] shape = "range" -> node.kind = "slice_in" /\ ~node.is_slice
    [] shape = "iterable" -> node.kind = "multislice_in" \/ raised_at = "construct"
    [] shape = "bool" -> err = "TypeError" /\ raised_at = "construct"

\* C10: the factory gives a value the node of the first rule it matches in
\* the order slice, filter expression, frame, integer, none/ellipsis, numeric
\* array, range, iterable, boolean.
C10_FirstMatchingRule ==
  phase # "start" =>
    LET order == <<"slice", "expr", "frame", "int", "none", "ellipsis",
                   "numpy_array", "range", "iterable", "bool">>
        hits == {i \in 1..Len(order) : order[i] \in src.shape}
    IN hits # {} =>
         RuleOutcome(order[CHOOSE i \in hits : \A j \in hits : i <= j], src)

C10_Witness ==
  /\ phase = "executed"
  /\ src.shape = {"range", "iterable"}
  /\ node.kind = "slice_in"
  /\ ~node.is_slice
  /\ ri.type = "ARITHMETIC"

----------------------------------------------------------------------------
(* C11 *)

\* C11: in the execute of a mixed-list selector the second loop stores
\* exactly as many indices as the first loop counted and the array was
\* allocated for: a zero-step slice(start, stop, 0) is counted as, and filled
\* with, stop copies of start, and an item the first loop skipped stores
\* nothing.
C11_FillMatchesCount ==
  (phase = "executed" /\ node.kind = "multislice_in") =>
    /\ ri.size = Len(ri.ind)
    /\ \A i \in 1..Len(src.elems) :
         LET e == src.elems[i] IN
         (Len(src.elems) = 1 /\ e.kind = "SLICE" /\ e.step = 0)
           => ri.size = e.stop /\ ri.ind = [k \in 1..e.stop |-> e.start]

----------------------------------------------------------------------------
(* C12 *)

\* the array is one-dimensional once a two-dimensional shape with an axis of
\* length 1 has been squeezed
OneDimensional(dims) ==
  Len(dims) = 1 \/ (Len(dims) = 2 /\ (dims[1] = 1 \/ dims[2] = 1))

StartsWith(str, prefix) ==
  Len(str) >= Len(prefix) /\ \A i \in 1..Len(prefix) : str[i] = prefix[i]

BoolOrIntDtype(dtype) ==
  StartsWith(dtype, <<"b", "o", "o", "l">>) \/ StartsWith(dtype, <<"i", "n", "t">>)

\* C12: a numpy array that is not one-dimensional after squeezing, or whose
\* dtype name starts with neither "bool" nor "int", is rejected with a type
\* error by the array handler itself; only one-dimensional boolean or integer
\* arrays are converted into a frame and handed to the frame node.
C12_ArrayHandlerRejects ==
  (phase # "start" /\ "numpy_array" \in src.shape) =>
    IF OneDimensional(src.dims) /\ BoolOrIntDtype(src.dtype)
      THEN node.kind = "frame_in" /\ raised_at # "construct"
      ELSE /\ phase = "failed"
           /\ raised_at = "construct"
           /\ err = "TypeError"
           /\ raised_by = "_from_nparray"

====
